---------------------------- MODULE Spec2Model ----------------------------
(***************************************************************************)
(* A model of github.com/mkch/asserting: the evaluator TB.Assert, the      *)
(* condition wrapper of package cond, the condition variants, the untyped  *)
(* values and the equality algorithm eq.                                   *)
(*                                                                         *)
(* A Go value held in an interface{} is a record [t |-> dynamic type,      *)
(* v |-> payload].  The nil interface has t = "nil".  64-bit integers are  *)
(* kept at their full width as four 16-bit limbs, most significant first,  *)
(* in two's complement; floating point values are sign, magnitude (five    *)
(* limbs) and a one-bit half, with NaN and the infinities apart.           *)
(***************************************************************************)
EXTENDS Integers, Sequences, FiniteSets, TLC

VARIABLES
    c,        \* the cond.Cond wrapper under construction / evaluation (*cond)
    subject,  \* the subject v handed to the last TB.Assert
    input,    \* how the subject was made: [mode, v, err]
    outcome,  \* "none", or how the last TB.Assert ended: "pass", "fail", "panic"
    calls,    \* the calls made during the last TB.Assert, in order
    eqA,      \* first operand of the equality under test
    eqB,      \* second operand of the equality under test
    eqOp,     \* "init", or the operation last applied to (eqA, eqB)
    eqR,      \* its result: "true", "false" or "panic"
    eqMsg,    \* the failure message the operation's condition gives
    setters,  \* the texts given to the setters of c since it was constructed
    mock,     \* the MockTB of the test: [ErrorMessages, FatalMessages, failed]
    asserts,  \* the number of Asserts the test has made
    heap,     \* the conditions goroutines share, by address: *cond values
    procs,    \* the goroutines inside TB.Assert: where each is, what it holds
    madeFatal \* whether SetFatal has been called on c since it was constructed

vars == <<c, subject, input, outcome, calls, eqA, eqB, eqOp, eqR, eqMsg,
          setters, mock, asserts, heap, procs, madeFatal>>

-----------------------------------------------------------------------------
(* Bounds of the value universe.                                           *)

\* The small integers -MaxInt..MaxInt are the integer samples of every width.
MaxInt == 2
\* Slices of the universe have at most MaxLen elements.
MaxLen == 1
\* A wrapper has its message set at most MaxSetters times.
MaxSetters == 2
\* A test makes at most MaxAsserts Asserts on its MockTB.
MaxAsserts == 3

-----------------------------------------------------------------------------
(* 64-bit words as limbs.                                                  *)

Base == 2^16
Top == Base - 1

\* The two's complement int64 pattern of a small integer n.
TwoC(n) ==
    IF n >= 0
    THEN <<0, 0, n \div Base, n % Base>>
    ELSE LET m == -n - 1
         IN  <<Top, Top, Top - (m \div Base), Top - (m % Base)>>

MaxUint64 == <<Top, Top, Top, Top>>
MaxInt64 == <<2^15 - 1, Top, Top, Top>>
MinInt64 == <<2^15, 0, 0, 0>>
\* 2^53 and 2^53 + 1: the first integer float64 cannot hold is 2^53 + 1.
Pow53 == <<2^5, 0, 0, 0>>
Pow53Plus1 == <<2^5, 0, 0, 1>>
Pow63 == <<2^15, 0, 0, 0>>

\* int64(w) < 0 for the pattern w.
IsNegWord(w) == w[1] >= 2^15

\* Limb sequences as naturals: s + 1, dropping the carry out of the top limb.
RECURSIVE Inc(_)
Inc(s) ==
    IF s = <<>> THEN <<>>
    ELSE LET n == Len(s)
         IN  IF s[n] < Top
             THEN [s EXCEPT ![n] = @ + 1]
             ELSE Inc(SubSeq(s, 1, n - 1)) \o <<0>>

\* Two's complement negation of a 64-bit pattern: -w mod 2^64.
NegWord(w) == Inc([i \in 1..4 |-> Top - w[i]])

IsZeroLimbs(s) == \A i \in 1..Len(s) : s[i] = 0

\* The magnitude |int64(w)| as five limbs (2^63 for the minimum int64).
MagOfInt(w) == <<0>> \o (IF IsNegWord(w) THEN NegWord(w) ELSE w)
\* The magnitude of uint64(w) as five limbs.
MagOfUint(w) == <<0>> \o w

\* floor(log2 t) for a limb 1 <= t < 2^16.
RECURSIVE Log2(_)
Log2(t) == IF t <= 1 THEN 0 ELSE 1 + Log2(t \div 2)

\* s + k for a limb sequence s and 0 <= k < Base, carrying upwards.
AddSmall(s, k) ==
    LET n == Len(s)
        sum == s[n] + k
    IN  IF sum < Base
        THEN [s EXCEPT ![n] = sum]
        ELSE Inc(SubSeq(s, 1, n - 1)) \o <<sum - Base>>

\* Round a magnitude below 2^64 to 53 significant bits, nearest, ties to even:
\* what the conversion float64(integer) does to the magnitude.
Round53(m) ==
    IF m[2] < 2^5 THEN m
    ELSE LET shift == Log2(m[2]) - 4
             unit == 2^shift
             low == m[5] % unit
             kept == [m EXCEPT ![5] = @ - low]
             odd == (m[5] \div unit) % 2 = 1
             up == low > unit \div 2 \/ (low = unit \div 2 /\ odd)
         IN  IF up THEN AddSmall(kept, unit) ELSE kept

-----------------------------------------------------------------------------
(* Floating point values.                                                  *)

Fin(neg, m, h) == [c |-> "fin", neg |-> neg, m |-> m, h |-> h]
NaN == [c |-> "nan", neg |-> FALSE, m |-> <<0, 0, 0, 0, 0>>, h |-> 0]
Inf(neg) == [c |-> "inf", neg |-> neg, m |-> <<0, 0, 0, 0, 0>>, h |-> 0]

\* The float64 of a small integer n, and of n + 1/2.
FloatOf(n) == Fin(n < 0, <<0>> \o TwoC(IF n < 0 THEN -n ELSE n), 0)
FloatHalf(n) == Fin(n < 0, <<0>> \o TwoC(IF n < 0 THEN -n ELSE n), 1)

IsZeroFloat(x) == x.c = "fin" /\ IsZeroLimbs(x.m) /\ x.h = 0

\* The Go operator == on two float64: NaN equals nothing, -0 equals +0.
FloatEq(x, y) ==
    /\ x.c # "nan"
    /\ y.c # "nan"
    /\ \/ IsZeroFloat(x) /\ IsZeroFloat(y)
       \/ x = y

\* float64(int64(w)) and float64(uint64(w)).
FloatOfInt64(w) == Fin(IsNegWord(w), Round53(MagOfInt(w)), 0)
FloatOfUint64(w) == Fin(FALSE, Round53(MagOfUint(w)), 0)

\* The Go operator == on two complex128.
ComplexEq(x, y) == FloatEq(x.re, y.re) /\ FloatEq(x.im, y.im)

-----------------------------------------------------------------------------
(* Go values and their dynamic types.                                      *)

\* reflect.Type.Kind() of a dynamic type.
Kind(t) ==
    CASE t = "int" -> "Int"
      [] t = "int8" -> "Int8"
      [] t = "int16" -> "Int16"
      [] t = "int32" -> "Int32"
      [] t = "int64" -> "Int64"
      [] t = "uint" -> "Uint"
      [] t = "uint8" -> "Uint8"
      [] t = "uint16" -> "Uint16"
      [] t = "uint32" -> "Uint32"
      [] t = "uint64" -> "Uint64"
      [] t = "uintptr" -> "Uintptr"
      [] t = "float32" -> "Float32"
      [] t = "float64" -> "Float64"
      [] t = "complex64" -> "Complex64"
      [] t = "complex128" -> "Complex128"
      [] t = "string" -> "String"
      [] t = "bool" -> "Bool"
      [] t = "*int" -> "Ptr"
      [] t = "*uint8" -> "Ptr"
      [] t = "*asserting.hasError" -> "Ptr"
      [] t = "[]int" -> "Slice"
      [] t = "[]string" -> "Slice"
      [] t = "map[int]int" -> "Map"
      [] t = "func()" -> "Func"
      [] t = "chan int" -> "Chan"
      [] t = "unsafe.Pointer" -> "UnsafePointer"
      [] t = "struct {}" -> "Struct"
      [] t = "struct { X int }" -> "Struct"
      [] t = "asserting.untypedInt" -> "Int64"
      [] t = "asserting.untypedUint" -> "Uint64"
      [] t = "asserting.untypedFloat" -> "Float64"
      [] t = "asserting.untypedString" -> "String"
      [] t = "asserting.untypedComplex" -> "Complex128"
      [] t = "runtime.errorString" -> "String"
      [] OTHER -> "Invalid"

IntKinds == {"Int", "Int8", "Int16", "Int32", "Int64"}
UintKinds == {"Uint", "Uint8", "Uint16", "Uint32", "Uint64"}
FloatKinds == {"Float32", "Float64"}
ComplexKinds == {"Complex64", "Complex128"}
\* The kinds whose values reflect.Value.IsNil accepts, as equalsNil lists them.
NilableKinds == {"Chan", "Func", "Interface", "Map", "Slice", "Ptr", "UnsafePointer"}
\* The kinds the operator == cannot compare: comparing two interface values of
\* one such dynamic type is a run-time panic.
UncomparableKinds == {"Slice", "Map", "Func"}

\* The nil interface value.
Nil == [t |-> "nil", v |-> 0]
Val(t, v) == [t |-> t, v |-> v]

\* A func() value: where its code is, and what calling it does, which is to
\* return normally or to panic with a value.  Calling the nil func() panics
\* with the run-time error of a nil dereference.
NilDeref == Val("runtime.errorString", "invalid memory address or nil pointer dereference")
Func(addr, panics, value) ==
    Val("func()", [nil |-> FALSE, addr |-> addr, panics |-> panics, value |-> value])
NilFunc ==
    Val("func()", [nil |-> TRUE, addr |-> 0, panics |-> TRUE, value |-> NilDeref])

\* A slice and a map value: nil or not, and the elements.
Slice(t, isNil, elems) == Val(t, [nil |-> isNil, elems |-> elems])
Map(isNil) == Val("map[int]int", [nil |-> isNil, elems |-> <<>>])


\* reflect.TypeOf(x) == nil
IsNilIface(x) == x.t = "nil"

\* reflect.ValueOf(x).IsNil() for x of a nilable kind.
IsNil(x) ==
    IF Kind(x.t) \in {"Slice", "Map", "Func"} THEN x.v.nil ELSE x.v = 0

\* reflect.ValueOf(x).Len() for a slice.
LenOf(x) == Len(x.v.elems)

\* The operator == on two payloads of one comparable dynamic type t.
PayloadEq(t, x, y) ==
    IF Kind(t) \in FloatKinds THEN FloatEq(x, y)
    ELSE IF Kind(t) \in ComplexKinds THEN ComplexEq(x, y)
    ELSE x = y

\* The operator == on two interface{} values: "panic" when both hold the same
\* uncomparable dynamic type, else whether types and values agree.
IfaceEq(a, b) ==
    IF a.t # b.t THEN "false"
    ELSE IF IsNilIface(a) THEN "true"
    ELSE IF Kind(a.t) \in UncomparableKinds THEN "panic"
    ELSE IF PayloadEq(a.t, a.v, b.v) THEN "true" ELSE "false"

-----------------------------------------------------------------------------
(* fmt: the verbs %v and %T.                                               *)

\* One long division step: the digits of s divided by ten, and the remainder.
RECURSIVE DivTen(_, _, _, _)
DivTen(s, i, r, q) ==
    IF i > Len(s) THEN <<q, r>>
    ELSE DivTen(s, i + 1, (r * Base + s[i]) % 10, Append(q, (r * Base + s[i]) \div 10))

\* The decimal digits of a limb sequence, most significant first; <<>> for 0.
RECURSIVE Digits(_)
DigitsStep(qr) == Append(Digits(qr[1]), qr[2])
Digits(s) ==
    IF IsZeroLimbs(s) THEN <<>> ELSE DigitsStep(DivTen(s, 1, 0, <<>>))

RECURSIVE Join(_)
Join(ds) == IF ds = <<>> THEN "" ELSE ToString(Head(ds)) \o Join(Tail(ds))

DecStr(s) == IF IsZeroLimbs(s) THEN "0" ELSE Join(Digits(s))

\* %v of a signed and of an unsigned integer.
FmtInt(w) == IF IsNegWord(w) THEN "-" \o DecStr(NegWord(w)) ELSE DecStr(w)
FmtUint(w) == DecStr(w)

RECURSIVE StripZeros(_)
StripZeros(ds) ==
    IF ds # <<>> /\ ds[Len(ds)] = 0
    THEN StripZeros(SubSeq(ds, 1, Len(ds) - 1))
    ELSE ds

\* floor(log2 m) of a magnitude m # 0, the limb i being its first non-zero one.
FloorLog2From(m, i) == 16 * (Len(m) - i) + Log2(m[i])
FloorLog2(m) == FloorLog2From(m, CHOOSE i \in 1..Len(m) :
                                     m[i] # 0 /\ \A j \in 1..(i - 1) : m[j] = 0)
\* 2^e as five limbs, and the bit b of a magnitude of five limbs.
PowTwo(e) == [i \in 1..5 |-> IF i = 5 - (e \div 16) THEN 2^(e % 16) ELSE 0]
BitOf(m, b) == (m[5 - (b \div 16)] \div 2^(b % 16)) % 2

\* Decimal digit sequences as numbers.  a < b for two of one length.
RECURSIVE DigitsLess(_, _)
DigitsLess(a, b) ==
    IF a = <<>> THEN FALSE
    ELSE IF a[1] # b[1] THEN a[1] < b[1]
    ELSE DigitsLess(Tail(a), Tail(b))

Zeros(n) == [i \in 1..n |-> 0]

\* d + 1, one digit longer when every digit is 9.
RECURSIVE IncDigits(_)
IncDigits(d) ==
    IF d = <<>> THEN <<1>>
    ELSE IF d[Len(d)] < 9 THEN [d EXCEPT ![Len(d)] = @ + 1]
    ELSE IncDigits(SubSeq(d, 1, Len(d) - 1)) \o <<0>>

\* 10^Len(r) - r for r # 0, in Len(r) digits; zeros for r = 0.
RECURSIVE TenComp(_)
TenComp(r) ==
    IF r = <<>> THEN <<>>
    ELSE IF r[Len(r)] # 0
    THEN [i \in 1..Len(r) |-> IF i = Len(r) THEN 10 - r[i] ELSE 9 - r[i]]
    ELSE TenComp(SubSeq(r, 1, Len(r) - 1)) \o <<0>>

\* The distance r, in Len(r) digits, is inside the gap g (digits without
\* leading zeros): below it, or equal to it when the bound itself reads back.
Within(r, g, inclusive) ==
    IF Len(g) > Len(r) THEN TRUE
    ELSE \/ DigitsLess(r, Zeros(Len(r) - Len(g)) \o g)
         \/ inclusive /\ r = Zeros(Len(r) - Len(g)) \o g

\* The digits pre followed by the digits rem are the exact integer.  Cutting
\* rem off rounds down to pre, or up to pre + 1; each is allowed when the
\* result still reads back as the same float.
DownOK(pre, rem, low, inclusive) == pre # <<>> /\ Within(rem, low, inclusive)
UpOK(rem, up, inclusive) == rem # Zeros(Len(rem)) /\ Within(TenComp(rem), up, inclusive)
\* With both allowed the nearer one is taken, the even one when they tie.
RoundUp(pre, rem, low, up, inclusive) ==
    /\ UpOK(rem, up, inclusive)
    /\ \/ ~DownOK(pre, rem, low, inclusive)
       \/ DigitsLess(TenComp(rem), rem)
       \/ TenComp(rem) = rem /\ pre[Len(pre)] % 2 = 1
Rounded(pre, rem, low, up, inclusive) ==
    (IF RoundUp(pre, rem, low, up, inclusive) THEN IncDigits(pre) ELSE pre)
    \o Zeros(Len(rem))

\* Cut as many digits off ds as can be, k or fewer.
RECURSIVE Trim(_, _, _, _, _)
Trim(ds, low, up, inclusive, k) ==
    IF k = 0 THEN ds
    ELSE IF \/ DownOK(SubSeq(ds, 1, Len(ds) - k),
                      SubSeq(ds, Len(ds) - k + 1, Len(ds)), low, inclusive)
            \/ UpOK(SubSeq(ds, Len(ds) - k + 1, Len(ds)), up, inclusive)
    THEN Rounded(SubSeq(ds, 1, Len(ds) - k),
                 SubSeq(ds, Len(ds) - k + 1, Len(ds)), low, up, inclusive)
    ELSE Trim(ds, low, up, inclusive, k - 1)

\* The gaps around the float of magnitude m, 2^e <= m < 2^(e+1), of a format
\* with a mantissa of bits bits: half the distance to the next float above,
\* and to the next one below, which is half as far when m is 2^e.  A gap of
\* one half admits no other integer and counts as none.
GapUp(e, bits) == Digits(PowTwo(e - bits))
GapLow(m, e, bits) ==
    IF m # PowTwo(e) THEN GapUp(e, bits)
    ELSE IF e = bits THEN <<>>
    ELSE Digits(PowTwo(e - bits - 1))
\* The bounds themselves read back as m when the mantissa of m is even.
EvenMantissa(m, e, bits) == BitOf(m, e - bits + 1) = 0

ShortestFrom(m, e, bits) ==
    IF e < bits THEN Digits(m)
    ELSE Trim(Digits(m), GapLow(m, e, bits), GapUp(e, bits),
              EvenMantissa(m, e, bits), Len(Digits(m)))

\* The integer with the fewest significant digits that reads back as the
\* float of magnitude m, the nearest to m of these: what strconv's shortest
\* formatting prints.  Below 2^bits every integer is a float of its own and
\* the digits are the exact ones.
ShortestDigits(m, bits) ==
    IF IsZeroLimbs(m) THEN <<>> ELSE ShortestFrom(m, FloorLog2(m), bits)

\* %v of a float: strconv's 'g' format with the shortest precision, which
\* switches to the exponent form when the decimal exponent is 6 or more.
\* The exponent form d.ddde+XX of the digits ds with the decimal exponent exp.
FmtExp(ds, exp) ==
    ToString(Head(ds))
    \o (IF Tail(ds) = <<>> THEN "" ELSE "." \o Join(Tail(ds)))
    \o "e+" \o (IF exp < 10 THEN "0" ELSE "") \o ToString(exp)

\* The finite float x, whose integer part prints with the digits ds.
FmtFinite(x, ds) ==
    (IF x.neg THEN "-" ELSE "")
    \o (IF Len(ds) - 1 < 6
        THEN (IF ds = <<>> THEN "0" ELSE Join(ds)) \o (IF x.h = 1 THEN ".5" ELSE "")
        ELSE FmtExp(StripZeros(ds \o (IF x.h = 1 THEN <<5>> ELSE <<>>)), Len(ds) - 1))

\* %v of a float32 (bits = 24) or a float64 (bits = 53).
FmtFloat(x, bits) ==
    IF x.c = "nan" THEN "NaN"
    ELSE IF x.c = "inf" THEN (IF x.neg THEN "-Inf" ELSE "+Inf")
    ELSE FmtFinite(x, ShortestDigits(x.m, bits))

\* %v of a complex64 or complex128: (re+imi), the imaginary part always signed.
FmtComplex(x, bits) ==
    "(" \o FmtFloat(x.re, bits)
    \o (IF x.im.neg \/ x.im.c = "inf" THEN "" ELSE "+")
    \o FmtFloat(x.im, bits) \o "i)"

\* The mantissa bits of the floats of a kind.
MantissaBits(k) == IF k \in {"Float32", "Complex64"} THEN 24 ELSE 53

HexDigit(d) ==
    <<"0", "1", "2", "3", "4", "5", "6", "7",
      "8", "9", "a", "b", "c", "d", "e", "f">>[d + 1]

RECURSIVE Hex(_)
Hex(n) == IF n < 16 THEN HexDigit(n) ELSE Hex(n \div 16) \o HexDigit(n % 16)

\* %v of an address: <nil> or 0x and the hexadecimal address.
FmtAddr(a) == IF a = 0 THEN "<nil>" ELSE "0x" \o Hex(a)

\* The element type of a slice type.
Elem(t) == IF t = "[]string" THEN "string" ELSE "int"

\* %v of the payload x of a value of the scalar type t.
FmtKind(k, x) ==
    CASE k \in IntKinds -> FmtInt(x)
      [] k \in UintKinds \cup {"Uintptr"} -> FmtUint(x)
      [] k \in FloatKinds -> FmtFloat(x, MantissaBits(k))
      [] k \in ComplexKinds -> FmtComplex(x, MantissaBits(k))
      [] k = "String" -> x
      [] k = "Bool" -> (IF x THEN "true" ELSE "false")
      [] OTHER -> FmtAddr(x)

FmtScalar(t, x) == FmtKind(Kind(t), x)

\* The elements of a slice or the fields of a struct, separated by spaces.
RECURSIVE FmtElems(_, _)
FmtElems(t, es) ==
    IF es = <<>> THEN ""
    ELSE FmtScalar(t, Head(es))
         \o (IF Len(es) > 1 THEN " " ELSE "")
         \o FmtElems(t, Tail(es))

\* fmt.Sprintf("%v", x)
FmtValue(k, x) ==
    CASE k = "Slice" -> "[" \o FmtElems(Elem(x.t), x.v.elems) \o "]"
      [] k = "Map" -> "map[]"
      [] k = "Func" -> FmtAddr(x.v.addr)
      [] k = "Struct" -> "{" \o FmtElems("int", x.v) \o "}"
      [] x.t = "runtime.errorString" -> "runtime error: " \o x.v
      [] x.t = "*asserting.hasError" ->
            "&{" \o x.v.message \o " " \o (IF x.v.fatal THEN "true" ELSE "false") \o "}"
      [] OTHER -> FmtKind(k, x.v)

FmtV(x) == IF IsNilIface(x) THEN "<nil>" ELSE FmtValue(Kind(x.t), x)

\* fmt.Sprintf("%T", x)
FmtT(x) == IF IsNilIface(x) THEN "<nil>" ELSE x.t

\* fmt.Sprintf("%[1]v(%[1]T)", x)
FmtVT(x) == FmtV(x) \o "(" \o FmtT(x) \o ")"

-----------------------------------------------------------------------------
(* Untyped values and the equality algorithm.                              *)

Bool(b) == IF b THEN "true" ELSE "false"
Not(r) == IF r = "panic" THEN "panic" ELSE Bool(r = "false")

\* UntypedInt(n), UntypedUint(n), UntypedFloat(f), UntypedString(str) and
\* UntypedComplex(c); UntypedUint takes an int64 and converts its pattern.
UntypedInt(w) == Val("asserting.untypedInt", w)
UntypedUint(w) == Val("asserting.untypedUint", w)
UntypedFloat(f) == Val("asserting.untypedFloat", f)
UntypedString(str) == Val("asserting.untypedString", str)
UntypedComplex(z) == Val("asserting.untypedComplex", z)

\* A faulty untypedInt.equals that compares the bit patterns of an untyped
\* integer and an unsigned value without looking at the sign.
untypedInt_equals_NoSign(i, r) ==
    IF IsNilIface(r) THEN FALSE
    ELSE LET k == Kind(r.t)
         IN  CASE k \in IntKinds -> i = r.v
               [] k \in UintKinds -> i = r.v
               [] k \in FloatKinds -> FloatEq(FloatOfInt64(i), r.v)
               [] OTHER -> FALSE

\* (i untypedInt).equals(r)
untypedInt_equals(i, r) ==
    IF IsNilIface(r) THEN FALSE
    ELSE LET k == Kind(r.t)
         IN  CASE k \in IntKinds -> i = r.v
               [] k \in UintKinds -> ~IsNegWord(i) /\ i = r.v
               [] k \in FloatKinds -> FloatEq(FloatOfInt64(i), r.v)
               [] OTHER -> FALSE

\* (i untypedUint).equals(r)
untypedUint_equals(i, r) ==
    IF IsNilIface(r) THEN FALSE
    ELSE LET k == Kind(r.t)
         IN  CASE k \in UintKinds -> i = r.v
               [] k \in IntKinds -> ~IsNegWord(r.v) /\ i = r.v
               [] k \in FloatKinds -> FloatEq(FloatOfUint64(i), r.v)
               [] OTHER -> FALSE

\* (f untypedFloat).equals(r)
untypedFloat_equals(f, r) ==
    IF IsNilIface(r) THEN FALSE
    ELSE IF Kind(r.t) \in FloatKinds THEN FloatEq(f, r.v) ELSE FALSE

\* (s untypedString).equals(r)
untypedString_equals(s, r) ==
    IF IsNilIface(r) THEN FALSE
    ELSE IF Kind(r.t) = "String" THEN s = r.v ELSE FALSE

\* (c untypedComplex).equals(r)
untypedComplex_equals(z, r) ==
    IF IsNilIface(r) THEN FALSE
    ELSE IF Kind(r.t) \in ComplexKinds THEN ComplexEq(z, r.v) ELSE FALSE

\* The types that implement the interface ieq.
IeqTypes ==
    {"asserting.untypedInt", "asserting.untypedUint", "asserting.untypedFloat",
     "asserting.untypedString", "asserting.untypedComplex"}

\* x.(ieq) succeeds.
IsIeq(x) == x.t \in IeqTypes

\* ieq.equals(r), dispatched on the dynamic type of x.
ieq_equals(x, r) ==
    CASE x.t = "asserting.untypedInt" -> untypedInt_equals(x.v, r)
      [] x.t = "asserting.untypedUint" -> untypedUint_equals(x.v, r)
      [] x.t = "asserting.untypedFloat" -> untypedFloat_equals(x.v, r)
      [] x.t = "asserting.untypedString" -> untypedString_equals(x.v, r)
      [] x.t = "asserting.untypedComplex" -> untypedComplex_equals(x.v, r)

\* A faulty equalsNil that forgets the slices.
equalsNil_NoSlice(v) ==
    IF IsNilIface(v) THEN TRUE
    ELSE IF Kind(v.t) \in NilableKinds \ {"Slice"} THEN IsNil(v)
    ELSE FALSE

\* equalsNil(v): v is the nil interface or a nil value of a nilable kind.
equalsNil(v) ==
    IF IsNilIface(v) THEN TRUE
    ELSE IF Kind(v.t) \in NilableKinds THEN IsNil(v)
    ELSE FALSE

\* eq(a, b): "true", "false", or "panic" when a == b panics.
eq(a, b) ==
    LET same == IfaceEq(a, b)
    IN  IF same = "panic" THEN "panic"
        ELSE IF same = "true" THEN "true"
        ELSE IF IsNilIface(a) THEN Bool(equalsNil(b))
        ELSE IF IsNilIface(b) THEN Bool(equalsNil(a))
        ELSE IF IsIeq(a) THEN Bool(ieq_equals(a, b))
        ELSE IF IsIeq(b) THEN Bool(ieq_equals(b, a))
        ELSE "false"

\* formatMsg(format, arg1, arg2); a format with two %v is its three pieces.
Sprintf2(format, a1, a2) == format[1] \o a1 \o format[2] \o a2 \o format[3]

\* A faulty formatMsg that never adds the types.
formatMsg_Plain(format, arg1, arg2) == Sprintf2(format, FmtV(arg1), FmtV(arg2))

formatMsg(format, arg1, arg2) ==
    IF FmtV(arg1) = FmtV(arg2)
    THEN Sprintf2(format, FmtVT(arg1), FmtVT(arg2))
    ELSE Sprintf2(format, FmtV(arg1), FmtV(arg2))

-----------------------------------------------------------------------------
(* The condition variants.  A variant is a record [type, expected, f, got]: *)
(* the fields of the structs equals, notEquals, matches, panics,           *)
(* panicMatches and equalsSlice.                                           *)

Variant(type, expected, f) ==
    [type |-> type, expected |-> expected, f |-> f, got |-> Nil]

One == Val("int", TwoC(1))

\* The predicates handed to Matches and PanicMatches:
\* func(v interface{}) bool { return v == 1 }, { return v != 1 } and
\* { _, ok := v.(string); return ok }.
Pred(f, v) ==
    CASE f = "isOne" -> IfaceEq(v, One)
      [] f = "notOne" -> Not(IfaceEq(v, One))
      [] f = "isString" -> Bool(v.t = "string")

\* What a Test gives: its result, the variant afterwards, and how many times
\* the tested func() was called.
Tested(res, cv, ran) == [res |-> res, cv |-> cv, ran |-> ran]

\* (c *equals).Test(v)
equals_Test(cv, v) == eq(cv.expected, v)

\* (c *equals).Message(v)
equals_Message(cv, v) ==
    formatMsg(<<"expected <", "> but was <", ">">>, cv.expected, v)

\* (c *notEquals).Test(v)
notEquals_Test(cv, v) == Not(equals_Test(cv, v))

\* (c *notEquals).Message(v)
notEquals_Message(cv, v) == "unexpected <" \o FmtV(v) \o ">"

\* (c *matches).Test(v)
matches_Test(cv, v) == Pred(cv.f, v)

\* (c *matches).Message(v)
matches_Message(cv, v) == "unexpected <" \o FmtV(v) \o ">"

\* recover() after calling f: the value f panicked with, nil if it returned.
Recovered(f) == IF f.v.panics THEN f.v.value ELSE Nil

\* A faulty panics.Test that makes the type assertion inside the guarded
\* scope, so that its panic is captured like one of the tested function.
panics_Test_Captured(cv, v) ==
    IF v.t # "func()"
    THEN LET got == Val("string", "<" \o FmtV(v) \o "> is not a func()")
         IN  Tested(eq(cv.expected, got), [cv EXCEPT !.got = got], 0)
    ELSE LET got == Recovered(v)
         IN  Tested(eq(cv.expected, got), [cv EXCEPT !.got = got], 1)

\* (c *panics).Test(v): the type assertion fails before the deferred capture
\* is set up; otherwise f runs once, got is captured, the result is eq.
panics_Test(cv, v) ==
    IF v.t # "func()" THEN Tested("panic", cv, 0)
    ELSE LET got == Recovered(v)
         IN  Tested(eq(cv.expected, got), [cv EXCEPT !.got = got], 1)

\* nilExplain as Message sets it: if c.got == nil { nilExplain = ... }
NilExplain(got) == IF IsNilIface(got) THEN " (didn't panic?)" ELSE ""

\* The return statement of panics.Message, which reads c.got once more.
panics_Return(cv, nilExplain) ==
    formatMsg(<<"expected to panic with <", "> but <", ">" \o nilExplain>>,
              cv.expected, cv.got)

\* A faulty panics.Message that never explains a nil.
panics_Message_NoExplain(cv, v) ==
    formatMsg(<<"expected to panic with <", "> but <", ">">>, cv.expected, cv.got)

\* (c *panics).Message(v)
panics_Message(cv, v) == panics_Return(cv, NilExplain(cv.got))

\* (c *panicMatches).Test(v)
panicMatches_Test(cv, v) ==
    IF v.t # "func()" THEN Tested("panic", cv, 0)
    ELSE LET got == Recovered(v)
         IN  Tested(Pred(cv.f, got), [cv EXCEPT !.got = got], 1)

\* The return statement of panicMatches.Message, which reads c.got once more.
panicMatches_Return(cv, nilExplain) ==
    "unexpected panic <" \o FmtV(cv.got) \o ">" \o nilExplain

\* (c *panicMatches).Message(v)
panicMatches_Message(cv, v) == panicMatches_Return(cv, NilExplain(cv.got))

\* reflect.DeepEqual on two slices of one type: nil only equals nil.
DeepEqual(x, y) == x.v.nil = y.v.nil /\ x.v.elems = y.v.elems

\* A faulty equalsSlice.Test that lets slices of two types through as unequal.
equalsSlice_Test_NoTypeCheck(cv, v) ==
    LET e == cv.expected
    IN  IF ~IsNilIface(v) /\ Kind(v.t) # "Slice" THEN "panic"
        ELSE IF ~IsNilIface(e) /\ Kind(e.t) # "Slice" THEN "panic"
        ELSE IF IsNilIface(v)
             THEN (IF ~IsNilIface(e) /\ LenOf(e) # 0 THEN "false" ELSE "true")
        ELSE IF IsNilIface(e)
             THEN (IF ~IsNilIface(v) /\ LenOf(v) # 0 THEN "false" ELSE "true")
        ELSE IF v.t # e.t THEN "false"
        ELSE Bool(DeepEqual(v, e))

\* (c *equalsSlice).Test(v)
equalsSlice_Test(cv, v) ==
    LET e == cv.expected
    IN  IF ~IsNilIface(v) /\ Kind(v.t) # "Slice" THEN "panic"
        ELSE IF ~IsNilIface(e) /\ Kind(e.t) # "Slice" THEN "panic"
        ELSE IF IsNilIface(v)
             THEN (IF ~IsNilIface(e) /\ LenOf(e) # 0 THEN "false" ELSE "true")
        ELSE IF IsNilIface(e)
             THEN (IF ~IsNilIface(v) /\ LenOf(v) # 0 THEN "false" ELSE "true")
        ELSE IF v.t # e.t THEN "panic"
        ELSE Bool(DeepEqual(v, e))

\* (c *equalsSlice).Message(v)
equalsSlice_Message(cv, v) ==
    formatMsg(<<"expected <", "> but was <", ">">>, cv.expected, v)

\* Condition.Test(v), dispatched on the variant.
Condition_Test(cv, v) ==
    CASE cv.type = "equals" -> Tested(equals_Test(cv, v), cv, 0)
      [] cv.type = "notEquals" -> Tested(notEquals_Test(cv, v), cv, 0)
      [] cv.type = "matches" -> Tested(matches_Test(cv, v), cv, 0)
      [] cv.type = "panics" -> panics_Test(cv, v)
      [] cv.type = "panicMatches" -> panicMatches_Test(cv, v)
      [] cv.type = "equalsSlice" -> Tested(equalsSlice_Test(cv, v), cv, 0)

\* Condition.Message(v), dispatched on the variant.
Condition_Message(cv, v) ==
    CASE cv.type = "equals" -> equals_Message(cv, v)
      [] cv.type = "notEquals" -> notEquals_Message(cv, v)
      [] cv.type = "matches" -> matches_Message(cv, v)
      [] cv.type = "panics" -> panics_Message(cv, v)
      [] cv.type = "panicMatches" -> panicMatches_Message(cv, v)
      [] cv.type = "equalsSlice" -> equalsSlice_Message(cv, v)

-----------------------------------------------------------------------------
(* Package cond: the wrapper.  userMsg is nil, the closure SetMessage      *)
(* makes, or the generator handed to SetMessageFunc; each returns a text.  *)

NoUserMsg == [kind |-> "nil", text |-> ""]

\* cond.New(c)
New(cv) == [Condition |-> cv, userMsg |-> NoUserMsg, isFatal |-> FALSE]

\* A faulty SetMessage that leaves a generator in place once one is set.
cond_SetMessage_KeepGenerator(cw, msg) ==
    IF cw.userMsg.kind = "func" THEN cw
    ELSE [cw EXCEPT !.userMsg = [kind |-> "closure", text |-> msg]]

\* A faulty SetMessage that builds the wrapper anew around the condition and
\* the message, and so loses the fatal flag.
cond_SetMessage_Rebuilt(cw, msg) ==
    [New(cw.Condition) EXCEPT !.userMsg = [kind |-> "closure", text |-> msg]]

\* (c *cond).SetMessage(msg)
cond_SetMessage(cw, msg) == [cw EXCEPT !.userMsg = [kind |-> "closure", text |-> msg]]

\* (c *cond).SetMessageFunc(f), f a generator returning text
cond_SetMessageFunc(cw, text) == [cw EXCEPT !.userMsg = [kind |-> "func", text |-> text]]

\* (c *cond).SetFatal()
cond_SetFatal(cw) == [cw EXCEPT !.isFatal = TRUE]

\* cond.Fatal(c)
cond_Fatal(cw) == cw.isFatal

\* The constructors of the variants.
Equals(expected) == New(Variant("equals", expected, ""))
NotEquals(unexpected) == New(Variant("notEquals", unexpected, ""))
Matches(f) == New(Variant("matches", Nil, f))
Panics(expected) == New(Variant("panics", expected, ""))
PanicMatches(f) == New(Variant("panicMatches", Nil, f))
EqualsSlice(expected) == New(Variant("equalsSlice", expected, ""))

-----------------------------------------------------------------------------
(* The evaluator.                                                          *)

\* One call made during an Assert: a method of the condition ("Test",
\* "Message"), the override ("userMsg"), the tested func() ("f"), or a method
\* of the testing.TB ("Error", "Fatal") with the message it is given.  who
\* tells the condition handed to Assert ("c") from the one Assert makes for a
\* carrier ("synthetic").
Call(op, who, msg) == [op |-> op, who |-> who, msg |-> msg]

\* A message and the one call that produced it.
Produced(op, who, text) == [text |-> text, calls |-> <<Call(op, who, text)>>]

\* A faulty message that has the variant produce its message first, whether
\* an override is set or not.
cond_Message_Eager(cw, v, who) ==
    IF cw.userMsg.kind # "nil"
    THEN [text |-> cw.userMsg.text,
          calls |-> <<Call("Message", who, Condition_Message(cw.Condition, v)),
                      Call("userMsg", who, cw.userMsg.text)>>]
    ELSE Produced("Message", who, Condition_Message(cw.Condition, v))

\* cond.Message(c, v), i.e. (c *cond).message(v): the text and the call made.
cond_Message(cw, v, who) ==
    IF cw.userMsg.kind # "nil"
    THEN Produced("userMsg", who, cw.userMsg.text)
    ELSE Produced("Message", who, Condition_Message(cw.Condition, v))

\* ValueError(v, err) and ValueErrorFatal(v, err); err is [nil, text].
NoError == [nil |-> TRUE, text |-> ""]
Error(text) == [nil |-> FALSE, text |-> text]
Carrier(message, fatal) ==
    Val("*asserting.hasError", [message |-> message, fatal |-> fatal])

\* A faulty ValueError that makes a carrier whatever err is.
ValueError_NoNilCheck(v, err) ==
    Carrier("unexpected error <" \o err.text \o ">", FALSE)

ValueError(v, err) ==
    IF ~err.nil THEN Carrier("unexpected error <" \o err.text \o ">", FALSE) ELSE v

ValueErrorFatal(v, err) ==
    IF ~err.nil THEN Carrier("unexpected error <" \o err.text \o ">", TRUE) ELSE v

\* What an Assert gives: how it ended, the calls it made, the wrapper after.
Asserted(out, cs, cw) == [outcome |-> out, calls |-> cs, c |-> cw]

\* A faulty type assertion that never recognises a carrier.
IsCarrier_Never(v) == FALSE

\* v.(*hasError) succeeds.
IsCarrier(v) == v.t = "*asserting.hasError"

\* A faulty carrier condition that drops the carrier's fatal flag.
CarrierCond_NoFatal(err) == cond_SetMessage(Equals(Nil), err.message)

\* The condition Assert makes for a carrier:
\* Equals(nil).SetMessage(err.message), with SetFatal() if err.fatal.
CarrierCond(err) ==
    IF err.fatal
    THEN cond_SetFatal(cond_SetMessage(Equals(Nil), err.message))
    ELSE cond_SetMessage(Equals(Nil), err.message)

\* A faulty choice of the reporting method that ignores the fatal flag.
Reporter_ErrorOnly(cw) == "Error"

\* The method of testing.TB a failure is reported with: f := t.Error, or
\* t.Fatal if cond.Fatal(c).
Reporter(cw) == IF cond_Fatal(cw) THEN "Fatal" ELSE "Error"

\* The end of Assert once the message m is resolved: f(cond.Message(c, v)).
Reported(cw, who, tested, m) ==
    Asserted("fail", tested \o m.calls \o <<Call(Reporter(cw), who, m.text)>>, cw)

\* Assert after c.Test(v) gave t: a failure is resolved and reported.
Evaluated(v, cw, who, t, tested) ==
    IF t.res = "panic" THEN Asserted("panic", tested, cw)
    ELSE IF t.res = "true" THEN Asserted("pass", tested, cw)
    ELSE Reported(cw, who, tested, cond_Message(cw, v, who))

\* Assert on a subject that is no carrier; t is what c.Test(v) gives.
Tests(v, cw, who, t) ==
    Evaluated(v, [cw EXCEPT !.Condition = t.cv], who, t,
              <<Call("Test", who, "")>>
              \o (IF t.ran = 1 THEN <<Call("f", who, "")>> ELSE <<>>))

\* What the Assert on a carrier gives, r being the Assert on 0 it makes.
Delegated(r, cw) == Asserted(r.outcome, r.calls, cw)

\* (t TB).Assert(v, c)
RECURSIVE TB_Assert(_, _, _)
TB_Assert(v, cw, who) ==
    IF IsCarrier(v)
    THEN Delegated(TB_Assert(Val("int", TwoC(0)), CarrierCond(v.v), "synthetic"), cw)
    ELSE Tests(v, cw, who, Condition_Test(cw.Condition, v))

-----------------------------------------------------------------------------
(* The universe of values.                                                 *)

Ints == -MaxInt..MaxInt
Nats == 0..MaxInt

Two == Val("int", TwoC(2))
Complex(re, im) == [re |-> FloatOf(re), im |-> FloatOf(im)]
\* 2^53, 2^63 and 2^64 as float64, and the negative zero.
FloatPow53 == FloatOfUint64(Pow53)
FloatPow63 == FloatOfUint64(Pow63)
FloatPow64 == FloatOfUint64(MaxUint64)
NegZero == Fin(TRUE, <<0, 0, 0, 0, 0>>, 0)

\* func() values: one that returns, and those that panic with 1, 2 and a
\* slice.
FnReturn == Func(2^22, FALSE, Nil)
FnPanic1 == Func(2^22 + 2^5, TRUE, One)
FnPanic2 == Func(2^22 + 2^6, TRUE, Two)
FnPanicSlice == Func(2^22 + 2^8, TRUE, Slice("[]int", FALSE, <<TwoC(1)>>))

\* The sequences over S of length at most n.
RECURSIVE SeqsUpTo(_, _)
SeqsUpTo(S, n) ==
    IF n = 0 THEN {<<>>}
    ELSE LET shorter == SeqsUpTo(S, n - 1)
         IN  shorter \cup {Append(q, x) : q \in shorter, x \in S}

IntSlices ==
    {Slice("[]int", FALSE, es) : es \in SeqsUpTo({TwoC(1)}, MaxLen)}
    \cup {Slice("[]int", TRUE, <<>>)}

\* The numbers of every kind, width and signedness, with the ends of the
\* 64-bit ranges and the first integers a float64 cannot tell apart.
Numbers ==
    {Val(t, TwoC(n)) : t \in {"int", "int8", "int32", "int64"}, n \in Ints}
    \cup {Val(t, TwoC(n)) : t \in {"uint8", "uint32", "uint64"}, n \in Nats}
    \cup {Val(t, FloatOf(n)) : t \in {"float32", "float64"}, n \in Ints}
    \cup {UntypedInt(TwoC(n)) : n \in Ints}
    \cup {UntypedUint(TwoC(n)) : n \in Ints}
    \cup {UntypedFloat(FloatOf(n)) : n \in Ints}
    \cup {Val("int64", MinInt64), Val("int64", MaxInt64), Val("int64", Pow53Plus1),
          Val("uint64", MaxUint64), Val("uint64", Pow63), Val("uint64", Pow53Plus1),
          UntypedInt(MinInt64), UntypedInt(MaxInt64), UntypedInt(Pow53Plus1),
          UntypedUint(Pow63), UntypedUint(Pow53Plus1),
          Val("float64", FloatPow53), Val("float64", FloatPow63),
          Val("float64", FloatPow64), Val("float64", NaN), Val("float64", Inf(FALSE)),
          Val("float64", NegZero), Val("float64", FloatHalf(1)),
          Val("float32", FloatHalf(1)),
          UntypedFloat(NaN), UntypedFloat(FloatHalf(1)), UntypedFloat(FloatPow53)}

\* The values of the other kinds.
Others ==
    {Nil,
     Val("string", "1"), Val("string", "abc"),
     UntypedString("1"), UntypedString("abc"),
     Val("complex128", Complex(1, 2)), Val("complex128", Complex(1, -1)),
     UntypedComplex(Complex(1, 2)), UntypedComplex(Complex(1, -1)),
     Val("bool", TRUE), Val("bool", FALSE),
     Val("*int", 0), Val("*int", 2^12), Val("*uint8", 0), Val("*uint8", 2^12 + 2^3),
     Val("chan int", 0), Val("chan int", 2^13),
     Val("unsafe.Pointer", 0), Val("unsafe.Pointer", 2^12),
     Map(TRUE), Map(FALSE),
     Slice("[]string", TRUE, <<>>), Slice("[]string", FALSE, <<"abc">>),
     NilFunc, FnReturn, FnPanic1,
     Val("struct {}", <<>>), Val("struct { X int }", <<TwoC(1)>>),
     NilDeref}
    \cup IntSlices

\* The operands of the equality algorithm.
EqValues == Numbers \cup Others

\* The subjects handed to Assert.
Subjects ==
    {Nil, One, Val("string", "1"), UntypedInt(TwoC(1)),
     Val("*int", 0), Val("*uint8", 0), Slice("[]string", FALSE, <<>>),
     NilFunc, FnReturn, FnPanic1, FnPanic2, FnPanicSlice}
    \cup IntSlices

\* The expected values given to Equals and NotEquals.
Expected ==
    {Nil, One, Two, UntypedInt(TwoC(1)), Val("string", "1"), Val("*uint8", 0),
     Slice("[]int", FALSE, <<TwoC(1)>>)}

\* The expected values given to Panics.
ExpectedPanics == {Nil, One, Slice("[]int", FALSE, <<TwoC(1)>>)}

\* The expected values given to EqualsSlice.
ExpectedSlices ==
    {Nil, One, Slice("[]string", FALSE, <<>>)} \cup IntSlices

Preds == {"isOne", "notOne", "isString"}

\* Every wrapper a constructor returns.
Constructed ==
    {Equals(e) : e \in Expected}
    \cup {NotEquals(e) : e \in Expected}
    \cup {Matches(f) : f \in Preds}
    \cup {Panics(e) : e \in ExpectedPanics}
    \cup {PanicMatches(f) : f \in Preds \ {"notOne"}}
    \cup {EqualsSlice(e) : e \in ExpectedSlices}

\* The texts given to SetMessage and returned by the generators given to
\* SetMessageFunc.
Messages == {"m1", "m2"}
Generated == {"g1"}

\* The errors given to ValueError and ValueErrorFatal.
Errors == {NoError, Error("error"), Error("err")}

\* The ways a subject is made: given as it is, or through ValueError or
\* ValueErrorFatal from a value and an error.
Inputs ==
    {[mode |-> m, v |-> v, err |-> NoError] :
        m \in {"plain", "ValueError", "ValueErrorFatal"}, v \in Subjects}
    \cup {[mode |-> m, v |-> v, err |-> e] :
        m \in {"ValueError", "ValueErrorFatal"}, v \in {One, FnPanic1},
        e \in Errors \ {NoError}}

\* The subject an input makes.
Made(in) ==
    CASE in.mode = "plain" -> in.v
      [] in.mode = "ValueError" -> ValueError(in.v, in.err)
      [] in.mode = "ValueErrorFatal" -> ValueErrorFatal(in.v, in.err)

-----------------------------------------------------------------------------
(* MockTB, the testing.TB of the tests: it records the arguments of Error  *)
(* and Fatal, and nothing any more once Fatal was called.                  *)

\* &MockTB{}
NewMock == [ErrorMessages |-> <<>>, FatalMessages |-> <<>>, failed |-> FALSE]

\* A faulty Error that goes on recording after Fatal.
MockTB_Error_Unguarded(m, args) == [m EXCEPT !.ErrorMessages = Append(@, args)]

\* (m *MockTB).Error(args...)
MockTB_Error(m, args) ==
    IF m.failed THEN m
    ELSE [m EXCEPT !.ErrorMessages = Append(@, args)]

\* (m *MockTB).Fatal(args...)
MockTB_Fatal(m, args) ==
    IF m.failed THEN m
    ELSE [m EXCEPT !.FatalMessages = Append(@, args), !.failed = TRUE]

\* The MockTB after the calls cs of an Assert: those of Error and Fatal reach it.
RECURSIVE Delivered(_, _)
Delivered(m, cs) ==
    IF cs = <<>> THEN m
    ELSE IF Head(cs).op = "Error"
         THEN Delivered(MockTB_Error(m, <<Head(cs).msg>>), Tail(cs))
    ELSE IF Head(cs).op = "Fatal"
         THEN Delivered(MockTB_Fatal(m, <<Head(cs).msg>>), Tail(cs))
    ELSE Delivered(m, Tail(cs))

\* No setter called, a new MockTB, no Assert made.
TestIdle ==
    /\ setters = <<>>
    /\ mock = NewMock
    /\ asserts = 0
    /\ heap = <<>>
    /\ procs = <<>>
    /\ madeFatal = FALSE

-----------------------------------------------------------------------------
(* The evaluator as a state machine: a wrapper is constructed, configured  *)
(* with its setters and used in Assert.  subject, input, outcome and calls *)
(* describe the last Assert made with the wrapper as it is now configured; *)
(* constructing or reconfiguring the wrapper starts them afresh.           *)

NoInput == [mode |-> "none", v |-> Nil, err |-> NoError]

Fresh ==
    /\ subject' = Nil
    /\ input' = NoInput
    /\ outcome' = "none"
    /\ calls' = <<>>

EqIdle ==
    /\ eqA = Nil
    /\ eqB = Nil
    /\ eqOp = "idle"
    /\ eqR = "none"
    /\ eqMsg = ""

Init ==
    /\ c \in Constructed
    /\ subject = Nil
    /\ input = NoInput
    /\ outcome = "none"
    /\ calls = <<>>
    /\ EqIdle
    /\ TestIdle

\* c := Equals(e), NotEquals(e), Matches(f), Panics(e), PanicMatches(f) or
\* EqualsSlice(e)
Construct ==
    /\ \E cw \in Constructed : c' = cw
    /\ Fresh
    /\ madeFatal' = FALSE
    /\ UNCHANGED <<eqA, eqB, eqOp, eqR, eqMsg,
                   setters, mock, asserts, heap, procs>>

\* c.SetMessage(msg)
SetMessage ==
    /\ \E msg \in Messages : c' = cond_SetMessage(c, msg)
    /\ Fresh
    /\ UNCHANGED <<eqA, eqB, eqOp, eqR, eqMsg,
                   setters, mock, asserts, heap, procs, madeFatal>>

\* c.SetMessageFunc(f)
SetMessageFunc ==
    /\ \E text \in Generated : c' = cond_SetMessageFunc(c, text)
    /\ Fresh
    /\ UNCHANGED <<eqA, eqB, eqOp, eqR, eqMsg,
                   setters, mock, asserts, heap, procs, madeFatal>>

\* c.SetFatal()
SetFatal ==
    /\ c' = cond_SetFatal(c)
    /\ Fresh
    /\ madeFatal' = TRUE
    /\ UNCHANGED <<eqA, eqB, eqOp, eqR, eqMsg,
                   setters, mock, asserts, heap, procs>>

\* t.Assert(v, c), v given or made by ValueError / ValueErrorFatal
AssertStep ==
    /\ \E in \in Inputs :
       \E v \in {Made(in)} :
       \E r \in {TB_Assert(v, c, "c")} :
          /\ input' = in
          /\ subject' = v
          /\ outcome' = r.outcome
          /\ calls' = r.calls
          /\ c' = r.c
    /\ UNCHANGED <<eqA, eqB, eqOp, eqR, eqMsg,
                   setters, mock, asserts, heap, procs, madeFatal>>

Next ==
    \/ Construct
    \/ SetMessage
    \/ SetMessageFunc
    \/ SetFatal
    \/ AssertStep

Spec == Init /\ [][Next]_vars

-----------------------------------------------------------------------------
(* The equality algorithm on its own: two operands drawn from the universe *)
(* and one of eq, Equals(a).Test(b) and NotEquals(a).Test(b) applied.      *)

EvalIdle ==
    /\ c = Equals(Nil)
    /\ subject = Nil
    /\ input = NoInput
    /\ outcome = "none"
    /\ calls = <<>>

InitEq ==
    /\ eqA \in EqValues
    /\ eqB \in EqValues
    /\ eqOp = "init"
    /\ eqR = "none"
    /\ eqMsg = ""
    /\ EvalIdle
    /\ TestIdle

\* eq(eqA, eqB)
ApplyEq ==
    /\ eqOp = "init"
    /\ eqOp' = "eq"
    /\ eqR' = eq(eqA, eqB)
    /\ eqMsg' = ""
    /\ UNCHANGED <<c, subject, input, outcome, calls, eqA,
                   eqB, setters, mock, asserts, heap, procs, madeFatal>>

\* Equals(eqA).Test(eqB), and its Message(eqB) when the test fails
ApplyEquals ==
    /\ eqOp = "init"
    /\ eqOp' = "Equals"
    /\ LET cv == Equals(eqA).Condition
           r == equals_Test(cv, eqB)
       IN  /\ eqR' = r
           /\ eqMsg' = IF r = "false" THEN equals_Message(cv, eqB) ELSE ""
    /\ UNCHANGED <<c, subject, input, outcome, calls, eqA,
                   eqB, setters, mock, asserts, heap, procs, madeFatal>>

\* NotEquals(eqA).Test(eqB), and its Message(eqB) when the test fails
ApplyNotEquals ==
    /\ eqOp = "init"
    /\ eqOp' = "NotEquals"
    /\ LET cv == NotEquals(eqA).Condition
           r == notEquals_Test(cv, eqB)
       IN  /\ eqR' = r
           /\ eqMsg' = IF r = "false" THEN notEquals_Message(cv, eqB) ELSE ""
    /\ UNCHANGED <<c, subject, input, outcome, calls, eqA,
                   eqB, setters, mock, asserts, heap, procs, madeFatal>>

NextEq ==
    \/ ApplyEq
    \/ ApplyEquals
    \/ ApplyNotEquals

SpecEq == InitEq /\ [][NextEq]_vars

-----------------------------------------------------------------------------
(* The wrapper on its own: its message is set some times, by SetMessage or *)
(* SetMessageFunc in any order, and it is used in Assert.  setters keeps   *)
(* the texts given, in the order of the calls.                             *)

\* The conditions and subjects of the tests of the wrapper and of MockTB.
TestConditions == {Equals(One), Equals(Two), Panics(One)}
TestSubjects == {One, FnPanic2}

InitCond ==
    /\ c \in TestConditions
    /\ subject = Nil
    /\ input = NoInput
    /\ outcome = "none"
    /\ calls = <<>>
    /\ EqIdle
    /\ TestIdle

\* c.SetMessage(msg)
CondSetMessage ==
    /\ Len(setters) < MaxSetters
    /\ \E msg \in Messages :
          /\ c' = cond_SetMessage(c, msg)
          /\ setters' = Append(setters, msg)
    /\ Fresh
    /\ UNCHANGED <<eqA, eqB, eqOp, eqR, eqMsg, mock, asserts, heap, procs, madeFatal>>

\* c.SetMessageFunc(f)
CondSetMessageFunc ==
    /\ Len(setters) < MaxSetters
    /\ \E text \in Generated :
          /\ c' = cond_SetMessageFunc(c, text)
          /\ setters' = Append(setters, text)
    /\ Fresh
    /\ UNCHANGED <<eqA, eqB, eqOp, eqR, eqMsg, mock, asserts, heap, procs, madeFatal>>

\* c.SetFatal()
CondSetFatal ==
    /\ c' = cond_SetFatal(c)
    /\ Fresh
    /\ madeFatal' = TRUE
    /\ UNCHANGED <<eqA, eqB, eqOp, eqR, eqMsg,
                   setters, mock, asserts, heap, procs>>

\* t.Assert(v, c)
CondAssert ==
    /\ \E v \in TestSubjects :
       \E r \in {TB_Assert(v, c, "c")} :
          /\ input' = [mode |-> "plain", v |-> v, err |-> NoError]
          /\ subject' = v
          /\ outcome' = r.outcome
          /\ calls' = r.calls
          /\ c' = r.c
    /\ UNCHANGED <<eqA, eqB, eqOp, eqR, eqMsg,
                   setters, mock, asserts, heap, procs, madeFatal>>

NextCond ==
    \/ CondSetMessage
    \/ CondSetMessageFunc
    \/ CondSetFatal
    \/ CondAssert

SpecCond == InitCond /\ [][NextCond]_vars

-----------------------------------------------------------------------------
(* A test on a MockTB: conditions are constructed, made fatal or not, and  *)
(* used in Asserts one after the other, as in TestFatal.                   *)

\* The subjects of the Asserts of a test, given or made from an error.
MockInputs ==
    {[mode |-> "plain", v |-> v, err |-> NoError] : v \in TestSubjects}
    \cup {[mode |-> m, v |-> One, err |-> Error("error")] :
            m \in {"ValueError", "ValueErrorFatal"}}

\* mock := &MockTB{}; t := TB{mock}
InitMock ==
    /\ c \in TestConditions
    /\ subject = Nil
    /\ input = NoInput
    /\ outcome = "none"
    /\ calls = <<>>
    /\ EqIdle
    /\ TestIdle

\* c := Equals(e) or Panics(e)
MockConstruct ==
    /\ \E cw \in TestConditions : c' = cw
    /\ Fresh
    /\ madeFatal' = FALSE
    /\ UNCHANGED <<eqA, eqB, eqOp, eqR, eqMsg,
                   setters, mock, asserts, heap, procs>>

\* c.SetFatal()
MockSetFatal ==
    /\ c' = cond_SetFatal(c)
    /\ Fresh
    /\ madeFatal' = TRUE
    /\ UNCHANGED <<eqA, eqB, eqOp, eqR, eqMsg,
                   setters, mock, asserts, heap, procs>>

\* t.Assert(v, c) with t := TB{mock}: t.Error and t.Fatal are the MockTB's.
MockAssert ==
    /\ asserts < MaxAsserts
    /\ \E in \in MockInputs :
       \E v \in {Made(in)} :
       \E r \in {TB_Assert(v, c, "c")} :
          /\ input' = in
          /\ subject' = v
          /\ outcome' = r.outcome
          /\ calls' = r.calls
          /\ c' = r.c
          /\ mock' = Delivered(mock, r.calls)
    /\ asserts' = asserts + 1
    /\ UNCHANGED <<eqA, eqB, eqOp, eqR, eqMsg, setters, heap, procs, madeFatal>>

NextMock ==
    \/ MockConstruct
    \/ MockSetFatal
    \/ MockAssert

SpecMock == InitMock /\ [][NextMock]_vars

-----------------------------------------------------------------------------
(* Goroutines in TB.Assert at the same time.  Each holds a subject and the *)
(* address of a condition in heap; two may hold the same address.  An      *)
(* Assert with Panics or PanicMatches goes through Test in three steps,    *)
(* f(), c.got = recover() and the comparison that reads c.got again, and   *)
(* through Message in two, the nil check of c.got and the formatting that  *)
(* reads c.got once more.  Every access to c.got is a step of its own and   *)
(* another goroutine may run between any two: the behaviours are the       *)
(* interleavings of the goroutines' accesses.                              *)

ProcIds == {1, 2}
Addrs == {1, 2}
ConcConditions == {Panics(One), PanicMatches("isOne")}
ConcSubjects == {FnReturn, FnPanic1, FnPanic2}

\* A goroutine about to call t.Assert(v, c), c the condition at addr.
Started(addr, v) ==
    [addr |-> addr, v |-> v, pc |-> "start", thrown |-> Nil, res |-> "none",
     nilExplain |-> "", outcome |-> "none", report |-> <<>>]

InitConc ==
    /\ heap \in [Addrs -> ConcConditions]
    /\ procs \in [ProcIds -> {Started(a, v) : a \in Addrs, v \in ConcSubjects}]
    /\ c = Equals(Nil)
    /\ subject = Nil
    /\ input = NoInput
    /\ outcome = "none"
    /\ calls = <<>>
    /\ EqIdle
    /\ setters = <<>>
    /\ mock = NewMock
    /\ asserts = 0
    /\ madeFatal = FALSE

\* A faulty capture into a place all the conditions share.
Captured_Shared(h, addr, got) ==
    [a \in DOMAIN h |-> [h[a] EXCEPT !.Condition.got = got]]

\* c.got = recover(), c the condition at addr.
Captured(h, addr, got) == [h EXCEPT ![addr].Condition.got = got]

\* The comparison in the deferred function: eq(c.expected, c.got) for Panics
\* and c.f(c.got) for PanicMatches, c.got read from the condition.
Compared(cv) ==
    IF cv.type = "panics" THEN eq(cv.expected, cv.got) ELSE Pred(cv.f, cv.got)

\* Test up to f(): the type assertion, then the call of f.
ConcCall ==
    /\ \E p \in ProcIds :
          /\ procs[p].pc = "start"
          /\ procs' = [procs EXCEPT ![p] =
                IF @.v.t # "func()"
                THEN [@ EXCEPT !.pc = "done", !.outcome = "panic"]
                ELSE [@ EXCEPT !.pc = "called", !.thrown = Recovered(procs[p].v)]]
    /\ UNCHANGED <<c, subject, input, outcome, calls, eqA, eqB, eqOp, eqR, eqMsg,
                   setters, mock, asserts, heap, madeFatal>>

\* c.got = recover()
ConcCapture ==
    /\ \E p \in ProcIds :
          /\ procs[p].pc = "called"
          /\ heap' = Captured(heap, procs[p].addr, procs[p].thrown)
          /\ procs' = [procs EXCEPT ![p].pc = "captured"]
    /\ UNCHANGED <<c, subject, input, outcome, calls, eqA, eqB, eqOp, eqR, eqMsg,
                   setters, mock, asserts, madeFatal>>

\* result = eq(c.expected, c.got), or c.f(c.got); Test returns it.
ConcCompare ==
    /\ \E p \in ProcIds :
       \E r \in {Compared(heap[procs[p].addr].Condition)} :
          /\ procs[p].pc = "captured"
          /\ procs' = [procs EXCEPT ![p] =
                IF r = "panic"
                THEN [@ EXCEPT !.pc = "done", !.outcome = "panic"]
                ELSE [@ EXCEPT !.pc = "tested", !.res = r]]
    /\ UNCHANGED <<c, subject, input, outcome, calls, eqA, eqB, eqOp, eqR, eqMsg,
                   setters, mock, asserts, heap, madeFatal>>

\* The return statement of the condition's Message.
Returned(cv, nilExplain) ==
    IF cv.type = "panics" THEN panics_Return(cv, nilExplain)
    ELSE panicMatches_Return(cv, nilExplain)

\* if !c.Test(v) { ... }, after Test has returned: nothing more when it
\* returned true; else cond.Message(c, v) begins, and Message checks c.got
\* against nil.
ConcMessage ==
    /\ \E p \in ProcIds :
       \E cw \in {heap[procs[p].addr]} :
          /\ procs[p].pc = "tested"
          /\ procs' = [procs EXCEPT ![p] =
                IF @.res = "true"
                THEN [@ EXCEPT !.pc = "done", !.outcome = "pass"]
                ELSE [@ EXCEPT !.pc = "explained",
                               !.nilExplain = NilExplain(cw.Condition.got)]]
    /\ UNCHANGED <<c, subject, input, outcome, calls, eqA, eqB, eqOp, eqR, eqMsg,
                   setters, mock, asserts, heap, madeFatal>>

\* A message that renders the value the goroutine's own call threw, whatever
\* c.got holds by then.
Rendered_Own(cw, me) ==
    cond_Message([cw EXCEPT !.Condition.got = me.thrown], me.v, "c").text

\* What cond.Message(c, v) returns to TB.Assert: the override if there is
\* one, else what Message formats from the c.got the condition holds now
\* and the nilExplain it set before.
Rendered(cw, me) ==
    IF cw.userMsg.kind # "nil" THEN cond_Message(cw, me.v, "c").text
    ELSE Returned(cw.Condition, me.nilExplain)

\* f(cond.Message(c, v)): Message returns and Error or Fatal is called.
ConcReport ==
    /\ \E p \in ProcIds :
       \E cw \in {heap[procs[p].addr]} :
          /\ procs[p].pc = "explained"
          /\ procs' = [procs EXCEPT ![p] =
                [@ EXCEPT !.pc = "done", !.outcome = "fail",
                          !.report = <<Call(Reporter(cw), "c",
                                            Rendered(cw, procs[p]))>>]]
    /\ UNCHANGED <<c, subject, input, outcome, calls, eqA, eqB, eqOp, eqR, eqMsg,
                   setters, mock, asserts, heap, madeFatal>>

NextConc ==
    \/ ConcCall
    \/ ConcCapture
    \/ ConcCompare
    \/ ConcMessage
    \/ ConcReport

SpecConc == InitConc /\ [][NextConc]_vars

-----------------------------------------------------------------------------
(* Properties of the evaluator (specification Spec).                       *)

\* The calls of the last Assert that went to the testing.TB.
Reports == SelectSeq(calls, LAMBDA e : e.op \in {"Error", "Fatal"})

\* The message a failure of the wrapper cw on the subject v resolves to: the
\* override when one is set, else the variant's own message.
Resolved(cw, v) ==
    IF cw.userMsg.kind # "nil" THEN cw.userMsg.text
    ELSE Condition_Message(cw.Condition, v)

\* C1: when the subject of an Assert is not a carrier, a Test that returns
\* true leads to no call of the testing.TB at all, and a Test that returns
\* false to exactly one call, of Fatal if the wrapper's fatal flag is set and
\* of Error otherwise, with the resolved failure message as its argument.
C1_ReportOnceAtSeverity ==
    (outcome # "none" /\ ~IsCarrier(subject)) =>
        LET res == Condition_Test(c.Condition, subject).res
        IN  /\ res = "true" => (outcome = "pass" /\ Reports = <<>>)
            /\ res = "false" =>
                  /\ outcome = "fail"
                  /\ Len(Reports) = 1
                  /\ Reports[1].op = (IF c.isFatal THEN "Fatal" ELSE "Error")
                  /\ Reports[1].msg = Resolved(c, subject)
                  /\ Reports[1] = calls[Len(calls)]

\* A fatal Equals(2) failed on the subject 1 and was reported through Fatal.
C1_Witness ==
    /\ outcome = "fail"
    /\ subject = One
    /\ c.Condition.type = "equals"
    /\ c.Condition.expected = Two
    /\ c.isFatal
    /\ c.userMsg.kind = "nil"
    /\ Reports = <<Call("Fatal", "c", "expected <2> but was <1>")>>

\* C2: an Assert on ValueError(v, err) with err not nil always fails, reports
\* exactly the message "unexpected error <err>", and evaluates nothing of the
\* condition it was given: no Test, no Message, no override and no call of
\* the tested func() on behalf of that condition.
C2_CarrierFailsUnevaluated ==
    (outcome # "none" /\ input.mode = "ValueError" /\ ~input.err.nil) =>
        /\ outcome = "fail"
        /\ Len(Reports) = 1
        /\ Reports[1].msg = "unexpected error <" \o input.err.text \o ">"
        /\ \A i \in 1..Len(calls) : calls[i].who # "c"
        /\ \A i \in 1..Len(calls) : calls[i].op # "f"

\* Panics(1) was given with ValueError(f, errors.New("error")), f a func()
\* that panics with 1: the Assert failed although f would have passed.
C2_Witness ==
    /\ outcome = "fail"
    /\ input = [mode |-> "ValueError", v |-> FnPanic1, err |-> Error("error")]
    /\ c.Condition.type = "panics"
    /\ c.Condition.expected = One
    /\ Reports = <<Call("Error", "synthetic", "unexpected error <error>")>>

\* C3: when the subject is a carrier there is a single report, with the
\* carrier's severity and message: Error for a carrier of ValueError, Fatal
\* for one of ValueErrorFatal, whatever the fatal flag and the override of the
\* condition given to Assert.
C3_CarrierSeverity ==
    (outcome # "none" /\ IsCarrier(subject)) =>
        /\ Len(Reports) = 1
        /\ Reports[1].op = (IF input.mode = "ValueErrorFatal" THEN "Fatal" ELSE "Error")
        /\ Reports[1].msg = subject.v.message
        /\ Reports[1].who = "synthetic"
        /\ subject.v.fatal = (input.mode = "ValueErrorFatal")

\* A carrier of ValueError was reported through Error with its own message
\* although the condition given was fatal and had an override.
C3_Witness ==
    /\ outcome = "fail"
    /\ input.mode = "ValueError"
    /\ IsCarrier(subject)
    /\ c.isFatal
    /\ c.userMsg.kind = "closure"
    /\ Reports[1].op = "Error"
    /\ Reports[1].msg # c.userMsg.text

\* C4: with a nil err, ValueError(v, err) and ValueErrorFatal(v, err) are v
\* itself, no carrier, and the Assert on them ends as the Assert on v does,
\* with the same calls.
C4_NilErrorIsIdentity ==
    (outcome # "none" /\ input.mode \in {"ValueError", "ValueErrorFatal"}
     /\ input.err.nil) =>
        LET r == TB_Assert(input.v, c, "c")
        IN  /\ subject = input.v
            /\ ~IsCarrier(subject)
            /\ outcome = r.outcome
            /\ calls = r.calls
            /\ c = r.c

\* Equals(2) failed on ValueError(1, nil) as it does on 1.
C4_Witness ==
    /\ outcome = "fail"
    /\ input = [mode |-> "ValueError", v |-> One, err |-> NoError]
    /\ c.Condition.type = "equals"
    /\ c.Condition.expected = Two
    /\ c.userMsg.kind = "nil"
    /\ ~c.isFatal
    /\ calls = <<Call("Test", "c", ""),
                 Call("Message", "c", "expected <2> but was <1>"),
                 Call("Error", "c", "expected <2> but was <1>")>>

-----------------------------------------------------------------------------
(* Properties of the equality algorithm (specification SpecEq).            *)

\* The two operands are the same value.
SameOperands == eqA.t = eqB.t /\ eqA.v = eqB.v

\* C5: Equals(x).Test(x) is true and NotEquals(x).Test(x) is false for every
\* value x, slices, maps, functions and untyped values included.
C5_Reflexive ==
    /\ (eqOp = "Equals" /\ SameOperands) => eqR = "true"
    /\ (eqOp = "NotEquals" /\ SameOperands) => eqR = "false"

\* C6: eq(a, b) = eq(b, a) for every pair of values, two untyped values of
\* different kinds included.
C6_Symmetric == eqOp = "eq" => eqR = eq(eqB, eqA)

\* C7: eq(a, b) returns a boolean for every pair of values and never faults,
\* two operands of one uncomparable kind included.
C7_Total == eqOp = "eq" => eqR \in {"true", "false"}

\* The nil values of the universe: the nil interface and the nil pointers,
\* channel, unsafe pointer, map, slices and function.
C8_NilValues ==
    {Nil, Val("*int", 0), Val("*uint8", 0), Val("chan int", 0),
     Val("unsafe.Pointer", 0), Map(TRUE), Slice("[]string", TRUE, <<>>),
     Slice("[]int", TRUE, <<>>), NilFunc}

\* C8: Equals(nil).Test(v) and Equals(v).Test(nil) are true exactly when v is
\* the nil interface or a nil value of a nilable kind, and false for every
\* other value: the non-nil values of the nilable kinds and all values of the
\* other kinds, untyped values included.
C8_NilSurrogate ==
    /\ (eqOp = "Equals" /\ IsNilIface(eqA)) => eqR = Bool(eqB \in C8_NilValues)
    /\ (eqOp = "Equals" /\ IsNilIface(eqB)) => eqR = Bool(eqA \in C8_NilValues)

\* Equals(a nil []int).Test(nil) was true.
C8_Witness ==
    /\ eqOp = "Equals"
    /\ eqA.t = "[]int"
    /\ eqA.v.nil
    /\ IsNilIface(eqB)
    /\ eqR = "true"

\* C9: two nil pointers of different types are not equal, so Equals fails and
\* NotEquals passes on them; and the message of a failing Equals shows both
\* values with their types when their printed forms are the same, and
\* without when they differ.
C9_NilPointersAndAnnotation ==
    /\ (/\ eqOp \in {"Equals", "NotEquals"}
        /\ Kind(eqA.t) = "Ptr" /\ Kind(eqB.t) = "Ptr"
        /\ eqA.t # eqB.t /\ eqA.v = 0 /\ eqB.v = 0)
       => eqR = (IF eqOp = "Equals" THEN "false" ELSE "true")
    /\ (eqOp = "Equals" /\ eqR = "false") =>
          eqMsg = (IF FmtV(eqA) = FmtV(eqB)
                   THEN "expected <" \o FmtV(eqA) \o "(" \o FmtT(eqA) \o ")> but was <"
                        \o FmtV(eqB) \o "(" \o FmtT(eqB) \o ")>"
                   ELSE "expected <" \o FmtV(eqA) \o "> but was <" \o FmtV(eqB) \o ">")
    /\ (eqOp = "Equals" /\ eqA.t = "*uint8" /\ eqB.t = "*int" /\ eqA.v = 0 /\ eqB.v = 0)
       => eqMsg = "expected <<nil>(*uint8)> but was <<nil>(*int)>"
    /\ (eqOp = "Equals" /\ eqA.t = "int" /\ eqB.t = "int"
        /\ eqA.v = TwoC(2) /\ eqB.v = TwoC(1))
       => eqMsg = "expected <2> but was <1>"

\* Equals((*uint8)(nil)).Test((*int)(nil)) failed with both types shown.
C9_Witness ==
    /\ eqOp = "Equals"
    /\ eqA.t = "*uint8" /\ eqA.v = 0
    /\ eqB.t = "*int" /\ eqB.v = 0
    /\ eqR = "false"
    /\ eqMsg = "expected <<nil>(*uint8)> but was <<nil>(*int)>"

\* The integer a 64-bit pattern stands for, read as signed and as unsigned:
\* its sign and its magnitude.
C10_Signed(w) == [neg |-> IsNegWord(w), mag |-> MagOfInt(w)]
C10_Unsigned(w) == [neg |-> FALSE, mag |-> MagOfUint(w)]
C10_SignedTypes == {"int", "int8", "int32", "int64"}
C10_UnsignedTypes == {"uint8", "uint32", "uint64"}

\* C10: an untyped integer u equals an unsigned value r iff u >= 0 and the
\* two are the same integer, and an untyped unsigned u equals a signed value
\* r iff r >= 0 and the two are the same integer, in either operand order: a
\* negative value never equals an unsigned one, whatever the bit patterns.
C10_IntegerSignRule ==
    eqOp = "eq" =>
        /\ (eqA.t = "asserting.untypedInt" /\ eqB.t \in C10_UnsignedTypes) =>
              eqR = Bool(~IsNegWord(eqA.v) /\ C10_Signed(eqA.v) = C10_Unsigned(eqB.v))
        /\ (eqB.t = "asserting.untypedInt" /\ eqA.t \in C10_UnsignedTypes) =>
              eqR = Bool(~IsNegWord(eqB.v) /\ C10_Signed(eqB.v) = C10_Unsigned(eqA.v))
        /\ (eqA.t = "asserting.untypedUint" /\ eqB.t \in C10_SignedTypes) =>
              eqR = Bool(~IsNegWord(eqB.v) /\ C10_Unsigned(eqA.v) = C10_Signed(eqB.v))
        /\ (eqB.t = "asserting.untypedUint" /\ eqA.t \in C10_SignedTypes) =>
              eqR = Bool(~IsNegWord(eqA.v) /\ C10_Unsigned(eqB.v) = C10_Signed(eqA.v))

\* eq(UntypedInt(-1), the largest uint64) was false: the patterns are the same.
C10_Witness ==
    /\ eqOp = "eq"
    /\ eqA.t = "asserting.untypedInt" /\ eqA.v = TwoC(-1)
    /\ eqB.t = "uint64" /\ eqB.v = MaxUint64
    /\ eqR = "false"

\* The number a numeric value stands for, exactly: its sign, its integer
\* magnitude and its half. NaN and the infinities stand for no number.
C11_IsNumber(x) ==
    \/ Kind(x.t) \in IntKinds \cup UintKinds
    \/ Kind(x.t) \in FloatKinds /\ x.v.c = "fin"
C11_Number(x) ==
    IF Kind(x.t) \in IntKinds
    THEN [neg |-> IsNegWord(x.v), m |-> MagOfInt(x.v), h |-> 0]
    ELSE IF Kind(x.t) \in UintKinds
    THEN [neg |-> FALSE, m |-> MagOfUint(x.v), h |-> 0]
    ELSE [neg |-> x.v.neg /\ ~IsZeroFloat(x.v), m |-> x.v.m, h |-> x.v.h]
C11_UntypedNumbers ==
    {"asserting.untypedInt", "asserting.untypedUint", "asserting.untypedFloat"}
C11_ConcreteNumbers ==
    {"int", "int8", "int32", "int64", "uint8", "uint32", "uint64",
     "float32", "float64"}
C11_SameNumber(x, y) ==
    C11_IsNumber(x) /\ C11_IsNumber(y) /\ C11_Number(x) = C11_Number(y)

\* C11: an untyped integer, unsigned or float equals, in either operand
\* position, every concrete numeric value that stands for exactly the same
\* number, whatever its kind, width and signedness, and no value that stands
\* for another number.
C11_UntypedEqualsExactNumber ==
    eqOp = "eq" =>
        /\ (eqA.t \in C11_UntypedNumbers /\ eqB.t \in C11_ConcreteNumbers) =>
              eqR = Bool(C11_SameNumber(eqA, eqB))
        /\ (eqB.t \in C11_UntypedNumbers /\ eqA.t \in C11_ConcreteNumbers) =>
              eqR = Bool(C11_SameNumber(eqA, eqB))

-----------------------------------------------------------------------------
(* Properties of the variants and of the wrapper (specification Spec).     *)

\* A nil slice, and an empty slice that is not nil.
C12_IsNilSlice(x) == Kind(x.t) = "Slice" /\ x.v.nil
C12_IsEmptySlice(x) == Kind(x.t) = "Slice" /\ ~x.v.nil /\ Len(x.v.elems) = 0

\* C12: EqualsSlice passes, in both directions, on a nil slice against an
\* empty slice of the same type, as it does on the nil interface against an
\* empty slice.
C12_NilSliceEqualsEmpty ==
    (outcome # "none" /\ c.Condition.type = "equalsSlice") =>
        LET e == c.Condition.expected
            v == subject
        IN  (\/ C12_IsNilSlice(e) /\ C12_IsEmptySlice(v) /\ e.t = v.t
             \/ C12_IsEmptySlice(e) /\ C12_IsNilSlice(v) /\ e.t = v.t
             \/ IsNilIface(e) /\ C12_IsEmptySlice(v)
             \/ C12_IsEmptySlice(e) /\ IsNilIface(v))
            => outcome = "pass"

\* x is given (not the nil interface) and is no slice.
C13_NotASlice(x) == ~IsNilIface(x) /\ Kind(x.t) # "Slice"

\* The misuses of EqualsSlice(e) on v: one of the two is given and is no
\* slice, or the two are slices of different types.
C13_Misuse(e, v) ==
    \/ C13_NotASlice(v)
    \/ C13_NotASlice(e)
    \/ /\ ~IsNilIface(v) /\ ~IsNilIface(e)
       /\ Kind(v.t) = "Slice" /\ Kind(e.t) = "Slice"
       /\ v.t # e.t

\* C13: an Assert with EqualsSlice(e) on v panics in Test, with no call of
\* the testing.TB and neither a pass nor a failure, exactly when e or v is
\* given and is no slice or the two are slices of different types; in every
\* other case Test returns a boolean and the Assert passes or fails.
C13_EqualsSliceFaults ==
    (outcome # "none" /\ c.Condition.type = "equalsSlice" /\ ~IsCarrier(subject)) =>
        IF C13_Misuse(c.Condition.expected, subject)
        THEN outcome = "panic" /\ calls = <<Call("Test", "c", "")>>
        ELSE outcome \in {"pass", "fail"}

\* EqualsSlice([]string{}) was used on []int{1}: the Assert panicked.
C13_Witness ==
    /\ outcome = "panic"
    /\ c.Condition.type = "equalsSlice"
    /\ c.Condition.expected.t = "[]string"
    /\ subject.t = "[]int"
    /\ Len(subject.v.elems) = 1
    /\ calls = <<Call("Test", "c", "")>>

\* The calls of the tested func() during the last Assert.
C14_Invocations == SelectSeq(calls, LAMBDA e : e.op = "f")

\* C14: for a subject f of type func(), the Test of Panics(e) and of
\* PanicMatches(p) calls f exactly once, captures what f panicked with, nil
\* if f returned, lets nothing escape, and returns eq(e, got) respectively
\* p(got) for the captured value got: the Assert passes or fails accordingly.
C14_GuardedInvocation ==
    (/\ outcome # "none"
     /\ c.Condition.type \in {"panics", "panicMatches"}
     /\ subject.t = "func()") =>
        LET cv == c.Condition
            got == IF subject.v.panics THEN subject.v.value ELSE Nil
        IN  /\ Len(C14_Invocations) = 1
            /\ cv.got = got
            /\ outcome \in {"pass", "fail"}
            /\ cv.type = "panics" => (outcome = "pass" <=> eq(cv.expected, got) = "true")
            /\ cv.type = "panicMatches" => (outcome = "pass" <=> Pred(cv.f, got) = "true")

\* C15: an Assert with Panics or PanicMatches on a subject that is no func()
\* panics in Test: the testing.TB is not called, the Assert neither passes
\* nor fails, and nothing is captured, the condition being left as it was.
C15_NotCallableFaults ==
    [][(/\ outcome' # "none"
        /\ c'.Condition.type \in {"panics", "panicMatches"}
        /\ ~IsCarrier(subject')
        /\ subject'.t # "func()")
       => (/\ outcome' = "panic"
           /\ calls' = <<Call("Test", "c", "")>>
           /\ c' = c)]_vars

\* Panics(1) was used on the subject 1, which is no func().
C15_Witness ==
    /\ outcome = "panic"
    /\ c.Condition.type = "panics"
    /\ c.Condition.expected = One
    /\ subject = One
    /\ calls = <<Call("Test", "c", "")>>

\* C16: after any sequence of SetMessage and SetMessageFunc calls on a
\* wrapper, a failing Assert reports the text of the most recent of them, a
\* text given to SetMessage or one produced by the generator given to
\* SetMessageFunc; with no such call it reports the variant's Message(v).
C16_MostRecentOverride ==
    outcome = "fail" =>
        /\ Len(Reports) = 1
        /\ Reports[1].msg = (IF setters # <<>> THEN setters[Len(setters)]
                             ELSE Condition_Message(c.Condition, subject))

\* SetMessageFunc and then SetMessage("m1") were called on Equals(2), and the
\* Assert on 1 reported "m1".
C16_Witness ==
    /\ outcome = "fail"
    /\ setters = <<"g1", "m1">>
    /\ c.Condition.type = "equals"
    /\ subject = One
    /\ Reports = <<Call("Error", "c", "m1")>>

\* The calls of Test, and of the producers of a message (the override or the
\* variant's Message), during the last Assert.
C17_Tests == SelectSeq(calls, LAMBDA e : e.op = "Test")
C17_Producers == SelectSeq(calls, LAMBDA e : e.op \in {"userMsg", "Message"})

\* C17: an Assert calls Test exactly once, first of all, and a producer of the
\* message exactly once when Test returned false and never otherwise; the
\* producer is the override when one is set, the variant's Message not being
\* called then, and the variant's Message when none is set.
C17_LazyMessage ==
    outcome # "none" =>
        /\ Len(C17_Tests) = 1
        /\ calls[1].op = "Test"
        /\ Len(C17_Producers) = (IF outcome = "fail" THEN 1 ELSE 0)
        /\ (outcome = "fail" /\ ~IsCarrier(subject)) =>
              C17_Producers[1] =
                 (IF c.userMsg.kind # "nil"
                  THEN Call("userMsg", "c", c.userMsg.text)
                  ELSE Call("Message", "c", Condition_Message(c.Condition, subject)))
        /\ (outcome = "fail" /\ IsCarrier(subject)) =>
              C17_Producers[1] = Call("userMsg", "synthetic", subject.v.message)

\* A generator was set on Equals(1) and the Assert on 1 passed: Test was
\* called and the generator was not.
C17_Witness ==
    /\ outcome = "pass"
    /\ c.Condition.type = "equals"
    /\ c.Condition.expected = One
    /\ c.userMsg.kind = "func"
    /\ subject = One
    /\ calls = <<Call("Test", "c", "")>>

-----------------------------------------------------------------------------
(* Properties of a test on a MockTB (specification SpecMock).              *)

\* C18: once a failing Assert has recorded an abort-report on the MockTB, no
\* later Assert of the test records any report, through Error or through
\* Fatal, whatever its condition and severity: the abort-report stays the
\* only one and the reports recorded before it stay as they are.
C18_SuppressedAfterFatal ==
    [][mock.FatalMessages # <<>> =>
          /\ Len(mock.FatalMessages) = 1
          /\ mock'.FatalMessages = mock.FatalMessages
          /\ mock'.ErrorMessages = mock.ErrorMessages]_vars

\* As in TestFatal: the fatal Equals(2) failed on 1, then a condition that is
\* not fatal failed and called Error, and only the abort-report is recorded.
C18_Witness ==
    /\ asserts = 2
    /\ outcome = "fail"
    /\ ~c.isFatal
    /\ Reports # <<>>
    /\ Reports[1].op = "Error"
    /\ mock.FatalMessages = << <<"expected <2> but was <1>">> >>
    /\ mock.ErrorMessages = <<>>
    /\ mock.failed

-----------------------------------------------------------------------------
(* Properties of the messages of Panics and PanicMatches (specification    *)
(* Spec).                                                                  *)

\* What the func() f of the last Assert panicked with, nil if it returned.
C19_Thrown == IF subject.v.panics THEN subject.v.value ELSE Nil
C19_Explain == IF C19_Thrown.t = "nil" THEN " (didn't panic?)" ELSE ""

\* C19: when an Assert with Panics(e) or PanicMatches(p) fails and no
\* override is set, the message shows the value captured by that Assert's
\* Test, whatever an earlier Test on the same condition captured, with the
\* suffix " (didn't panic?)" exactly when the captured value is nil.
C19_PanicMessage ==
    (/\ outcome = "fail"
     /\ c.Condition.type \in {"panics", "panicMatches"}
     /\ c.userMsg.kind = "nil"
     /\ ~IsCarrier(subject)) =>
        LET e == c.Condition.expected
            got == C19_Thrown
        IN  /\ c.Condition.got = got
            /\ c.Condition.type = "panics" =>
                  Reports[1].msg =
                     (IF FmtV(e) = FmtV(got)
                      THEN "expected to panic with <" \o FmtV(e) \o "(" \o FmtT(e)
                           \o ")> but <" \o FmtV(got) \o "(" \o FmtT(got) \o ")>"
                           \o C19_Explain
                      ELSE "expected to panic with <" \o FmtV(e) \o "> but <"
                           \o FmtV(got) \o ">" \o C19_Explain)
            /\ c.Condition.type = "panicMatches" =>
                  Reports[1].msg = "unexpected panic <" \o FmtV(got) \o ">" \o C19_Explain
            /\ (c.Condition.type = "panics" /\ e = One /\ subject = FnPanic2) =>
                  Reports[1].msg = "expected to panic with <1> but <2>"
            /\ (c.Condition.type = "panicMatches" /\ subject = FnPanic2) =>
                  Reports[1].msg = "unexpected panic <2>"

\* Panics(1) failed on a func() that returns.
C19_Witness ==
    /\ outcome = "fail"
    /\ c.Condition.type = "panics"
    /\ c.Condition.expected = One
    /\ c.userMsg.kind = "nil"
    /\ subject = FnReturn
    /\ Reports[1].msg = "expected to panic with <1> but <<nil>> (didn't panic?)"

-----------------------------------------------------------------------------
(* Properties of concurrent Asserts (specification SpecConc).              *)

\* The goroutines use conditions of their own.
C20_OwnConditions == \A p, q \in ProcIds : p # q => procs[p].addr # procs[q].addr

\* C20: when the goroutines use conditions of their own, then under every
\* interleaving each Assert ends as it does alone, with the result and the
\* report its own subject and condition give, and the captured value of a
\* condition is written by its own goroutine only: it is nil until then and
\* what that goroutine's f panicked with afterwards.
C20_IndependentInstances ==
    C20_OwnConditions =>
        \A p \in ProcIds :
            LET me == procs[p]
                cw == heap[me.addr]
                alone == TB_Assert(me.v, [cw EXCEPT !.Condition.got = Nil], "c")
            IN  /\ cw.Condition.got =
                      (IF me.pc \in {"start", "called"} THEN Nil ELSE Recovered(me.v))
                /\ me.pc = "done" =>
                      /\ me.outcome = alone.outcome
                      /\ me.report =
                            SelectSeq(alone.calls, LAMBDA e : e.op \in {"Error", "Fatal"})
                      /\ cw = alone.c

\* Goroutine 1 has failed Panics(1) at address 1 on a func() that panics with
\* 2, while goroutine 2, on PanicMatches at address 2 with a func() that
\* returns, is between its Test and its Message.
C20_Witness ==
    /\ C20_OwnConditions
    /\ procs[1].pc = "done"
    /\ procs[1].addr = 1
    /\ procs[1].v = FnPanic2
    /\ heap[1].Condition.type = "panics"
    /\ procs[1].report = <<Call("Error", "c", "expected to panic with <1> but <2>")>>
    /\ procs[2].pc = "tested"
    /\ procs[2].v = FnReturn
    /\ heap[2].Condition.type = "panicMatches"
    /\ IsNilIface(heap[2].Condition.got)


-----------------------------------------------------------------------------
(* C21: one Panics or PanicMatches condition is not safe for overlapping   *)
(* evaluation.  When goroutine p has come back from a failing Test and     *)
(* goroutine q, holding the same condition, has run its Test since, so     *)
(* that c.got holds what q's call threw and not what p's call threw, then  *)
(* the Message of p explains the nil of q's value and not of its own, and  *)
(* the message p reports is the message of the condition with q's value    *)
(* captured, not the one with its own.                                     *)
C21_Second(p, q) ==
    /\ p # q
    /\ procs[p].addr = procs[q].addr
    /\ procs[q].pc \in {"captured", "tested", "explained", "done"}
    /\ heap[procs[p].addr].Condition.got = procs[q].thrown
    /\ procs[q].thrown # procs[p].thrown

\* p is between its Test and its Message, q's Test has run.
C21_Overlap(p, q) ==
    /\ C21_Second(p, q)
    /\ procs[p].pc = "tested"
    /\ procs[p].res = "false"

\* p is in the Message that began after q's Test.
C21_InMessage(p, q) ==
    /\ C21_Second(p, q)
    /\ procs[p].pc = "explained"
    /\ procs[p].nilExplain = NilExplain(procs[q].thrown)

C21_OfSecond(p, q) ==
    cond_Message([heap[procs[p].addr] EXCEPT !.Condition.got = procs[q].thrown],
                 procs[p].v, "c").text

C21_OfOwn(p) ==
    cond_Message([heap[procs[p].addr] EXCEPT !.Condition.got = procs[p].thrown],
                 procs[p].v, "c").text

C21_OverlapRendersSecond ==
    [][\A p \in ProcIds : \A q \in ProcIds :
          /\ (C21_Overlap(p, q) /\ procs'[p].pc # "tested")
                => C21_InMessage(p, q)'
          /\ (C21_InMessage(p, q) /\ procs'[p].pc = "done")
                => /\ procs'[p].outcome = "fail"
                   /\ Len(procs'[p].report) = 1
                   /\ procs'[p].report[1].msg = C21_OfSecond(p, q)
                   /\ procs'[p].report[1].msg # C21_OfOwn(p)]_vars

\* Goroutine 1 called a function that panics with 2 and goroutine 2 one that
\* returns, both against the same Panics(1): goroutine 1 reports "<nil>
\* (didn't panic?)", the value of goroutine 2.
C21_Witness ==
    /\ procs[1].addr = procs[2].addr
    /\ heap[procs[1].addr].Condition.type = "panics"
    /\ procs[1].v = FnPanic2
    /\ procs[2].v = FnReturn
    /\ procs[1].pc = "done"
    /\ procs[1].outcome = "fail"
    /\ procs[1].report = <<Call("Error", "c",
                                "expected to panic with <1> but <<nil>> (didn't panic?)")>>


-----------------------------------------------------------------------------
(* Untyped integers against floating-point subjects (specification SpecEq). *)

C22_UntypedIntegers == {"asserting.untypedInt", "asserting.untypedUint"}
C22_IntegerAgainstFloat(n, r) ==
    n.t \in C22_UntypedIntegers /\ Kind(r.t) \in FloatKinds

\* C22: an untyped integer or unsigned n equals a floating-point subject r
\* exactly when r stands for the integer n: n is not rounded, so an integer
\* that no float stands for equals no float subject.
C22_IntegerEqualsExactFloat ==
    eqOp = "eq" =>
        /\ C22_IntegerAgainstFloat(eqA, eqB) => eqR = Bool(C11_SameNumber(eqA, eqB))
        /\ C22_IntegerAgainstFloat(eqB, eqA) => eqR = Bool(C11_SameNumber(eqA, eqB))


-----------------------------------------------------------------------------
(* The fields of the wrapper under its setters (specification SpecCond).   *)

\* The steps of SpecCond, told apart by what they record: a message setter
\* adds its text to setters, an Assert leaves an outcome, SetFatal neither.
C23_MessageSet == setters' # setters
C23_Asserted == outcome' # "none"
C23_FatalSet == madeFatal' /\ setters' = setters /\ outcome' = "none"

\* C23: a new wrapper is not fatal and has no message of its own; SetMessage
\* and SetMessageFunc leave the fatal flag as it is, SetFatal leaves the
\* message as it is, Test and Message (an Assert) leave both as they are, and
\* no setter changes the condition wrapped; so the flag is set exactly when
\* SetFatal has been called, and once set it stays set.
C23_SettersKeepTheRest ==
    [][/\ (setters = <<>> /\ ~madeFatal) =>
              (~cond_Fatal(c) /\ c.userMsg = NoUserMsg)
       /\ cond_Fatal(c) <=> madeFatal
       /\ cond_Fatal(c') <=> madeFatal'
       /\ cond_Fatal(c) => cond_Fatal(c')
       /\ C23_MessageSet =>
              (c'.isFatal = c.isFatal /\ c'.Condition = c.Condition)
       /\ C23_FatalSet =>
              (c'.userMsg = c.userMsg /\ c'.Condition = c.Condition)
       /\ C23_Asserted =>
              (c'.isFatal = c.isFatal /\ c'.userMsg = c.userMsg)]_vars

\* SetFatal, then SetMessage and SetMessageFunc, then a failing Assert: the
\* wrapper is still fatal, holds the generator, and reported with Fatal.
C23_Witness ==
    /\ madeFatal
    /\ cond_Fatal(c)
    /\ Len(setters) = 2
    /\ c.userMsg = [kind |-> "func", text |-> setters[2]]
    /\ outcome = "fail"
    /\ \E i \in 1..Len(calls) : calls[i].op = "Fatal"

=============================================================================
